---- MODULE Spec2Model ----
(***************************************************************************)
(* A model of blum.py, the Streamlit script that decodes Copernicus        *)
(* NetCDF files into QGIS-style spreadsheets.                              *)
(*                                                                         *)
(* Three specifications share this module:                                 *)
(*   Spec      the script as Streamlit runs it: the selection loop         *)
(*             (section 5), the processing loop (section 7) and the        *)
(*             control flow of handle_copernicus_file (section 6), with    *)
(*             st.session_state.final_excels surviving from one script     *)
(*             run to the next;                                            *)
(*   GridSpec  the data path of one call of handle_copernicus_file:        *)
(*             slicing, longitude rewrap, lattice, the two interpolation   *)
(*             passes and the sorted table;                                *)
(*   NameSpec  the computation of the artifact names of one call.          *)
(*                                                                         *)
(* Degrees are integers in units of 0.0001 degree, so that the lattice     *)
(* step 0.125, the margin 0.0001 and the 3-decimal rounding are exact.     *)
(* Names are sequences of one-character strings.                           *)
(***************************************************************************)
EXTENDS Integers, Sequences, FiniteSets, TLC

VARIABLES
    \* ---- the script (Spec) ----
    NETCDF4_AVAILABLE,      \* module global, lines 10-14
    final_excels,           \* st.session_state.final_excels
    uploaded_files,         \* the uploader's value in this script run
    badUnits,               \* the selected (file, variable) units whose data make the handler raise
    copernicus_selections,  \* file name -> selection, rebuilt by every script run
    pc,                     \* position of the script
    idx,                    \* position of the selection / processing loop (1-based)
    hpc,                    \* position inside handle_copernicus_file
    vi,                     \* position of the handler's variable loop
    results,                \* the handler's local list
    handles,                \* dataset handles this script run opened and has not closed
    messages,               \* st.error / st.warning calls of this script run
    reported,               \* the count shown by st.success, -1 before any batch
    lastOpen,               \* what the latest open of this script run attempted and met
    scriptRuns,             \* script runs so far
    decoded,                \* files the handler opened in this script run
    openFailed,             \* <<site, file>> whose two backends both failed in this script run
    hadArtifacts,           \* whether the collection held artifacts when the latest batch began
    \* ---- one handler call's data path (GridSpec) ----
    g,
    \* ---- artifact naming (NameSpec) ----
    nm

scriptVars == <<NETCDF4_AVAILABLE, final_excels, uploaded_files, badUnits,
                copernicus_selections, pc, idx, hpc, vi, results, handles, messages,
                reported, lastOpen, scriptRuns, decoded, openFailed, hadArtifacts>>

vars == <<scriptVars, hadArtifacts, g, nm>>

(***************************************************************************)
(* Bounds of the model.                                                    *)
(***************************************************************************)
MaxScriptRuns == 2

(***************************************************************************)
(* Small helpers.                                                          *)
(***************************************************************************)
Range(s) == {s[i] : i \in 1..Len(s)}

\* sequences without repetition over S, of length lo and more
DistinctSeqs(S, lo) ==
    UNION {{s \in [1..n -> S] : \A i, j \in 1..n : i # j => s[i] # s[j]} :
              n \in lo..Cardinality(S)}

RECURSIVE Concat(_, _)
Concat(F, n) == IF n = 0 THEN <<>> ELSE Concat(F, n - 1) \o F[n]

(***************************************************************************)
(* Names.                                                                  *)
(***************************************************************************)
DotNc == <<".", "n", "c">>

FileNames == {<<"a">> \o DotNc, <<"b">> \o DotNc}

VarNames == {<<"s", "o">>, <<"u", "o">>}

IsPrefixAt(s, pat, i) ==
    /\ i + Len(pat) - 1 <= Len(s)
    /\ \A k \in 1..Len(pat) : s[i + k - 1] = pat[k]

\* Python's str.replace(old, new): every non-overlapping occurrence, left to right
RECURSIVE ReplaceFrom(_, _, _, _)
ReplaceFrom(s, old, new, i) ==
    IF i > Len(s) THEN <<>>
    ELSE IF IsPrefixAt(s, old, i)
         THEN new \o ReplaceFrom(s, old, new, i + Len(old))
         ELSE <<s[i]>> \o ReplaceFrom(s, old, new, i + 1)

StrReplace(s, old, new) == ReplaceFrom(s, old, new, 1)

QgisSuffix(var) == <<"_">> \o var \o <<"_", "q", "g", "i", "s", ".", "x", "l", "s", "x">>

\* out_name = file.name.replace(".nc", f"_{var}_qgis.xlsx")
OutName(fileName, var) == StrReplace(fileName, DotNc, QgisSuffix(var))

(***************************************************************************)
(* The script: opening a dataset (lines 61-70 and 118-124).                *)
(***************************************************************************)
\* the variant without the except branch
OpenDatasetNoFallback(avail, primOK, secOK) ==
    IF avail THEN [tried |-> <<"netcdf4">>, ok |-> primOK]
             ELSE [tried |-> <<>>, ok |-> FALSE]

\* try: netcdf4 when NETCDF4_AVAILABLE, else raise; except Exception: h5netcdf.
\* primOK / secOK: whether the backend decodes the bytes.  tried: the engines
\* asked, in order; ok: whether a handle came back (not ok: the second
\* open's exception leaves the inner try).
OpenDataset(avail, primOK, secOK) ==
    LET first == IF avail THEN [tried |-> <<"netcdf4">>, raised |-> ~primOK]
                          ELSE [tried |-> <<>>, raised |-> TRUE]
    IN  IF first.raised
        THEN [tried |-> Append(first.tried, "h5netcdf"), ok |-> secOK]
        ELSE [tried |-> first.tried, ok |-> TRUE]

\* the record kept of an open, for the properties
OpenRecord(site, file, primOK, o) ==
    [site |-> site, file |-> file, primOK |-> primOK, tried |-> o.tried, ok |-> o.ok]

NoOpen == [site |-> "none", file |-> <<>>, primOK |-> FALSE, tried |-> <<>>, ok |-> FALSE]

\* a handle: the open of `file` at `site` ("select": line 65/70, "handle": line 120/124)
Handle(site, file) == <<site, file>>

\* {"name": out_name, "content": buffer.getvalue()}; the content stands for the
\* serialized table of the unit
Artifact(file, var) == [name |-> OutName(file, var), content |-> <<file, var>>]

NoSelections == [f \in {} |-> <<>>]

\* the (file, variable) units of the selections
SelectedUnits(sel) ==
    UNION {{<<f, v>> : v \in Range(sel[f].variables)} : f \in DOMAIN sel}

(***************************************************************************)
(* The script: one run from the top (Streamlit reruns it on every           *)
(* interaction; only st.session_state survives).                           *)
(***************************************************************************)
Init ==
    /\ NETCDF4_AVAILABLE \in BOOLEAN
    /\ final_excels = <<>>
    /\ uploaded_files = <<>>
    /\ badUnits = {}
    /\ copernicus_selections = NoSelections
    /\ pc = "idle"
    /\ idx = 1
    /\ hpc = "call"
    /\ vi = 1
    /\ results = <<>>
    /\ handles = {}
    /\ messages = {}
    /\ reported = -1
    /\ lastOpen = NoOpen
    /\ scriptRuns = 0
    /\ decoded = {}
    /\ openFailed = {}
    /\ hadArtifacts = FALSE
    /\ g = <<>>
    /\ nm = <<>>

\* the script starts over with the uploader's files (lines 46-56)
Rerun ==
    /\ pc \in {"idle", "done"}
    /\ scriptRuns < MaxScriptRuns
    /\ \E files \in DistinctSeqs(FileNames, 0) :
            /\ uploaded_files' = files
            /\ pc' = IF files # <<>> THEN "select" ELSE "button"
    /\ scriptRuns' = scriptRuns + 1
    /\ copernicus_selections' = NoSelections
    /\ idx' = 1
    /\ badUnits' = {}
    /\ handles' = {}
    /\ messages' = {}
    /\ lastOpen' = NoOpen
    /\ decoded' = {}
    /\ openFailed' = {}
    /\ UNCHANGED <<NETCDF4_AVAILABLE, final_excels, hpc, vi, results, reported, hadArtifacts, g, nm>>

\* one iteration of the selection loop, lines 58-109
SelectFile ==
    /\ pc = "select"
    /\ idx <= Len(uploaded_files)
    /\ \E primOK, secOK \in BOOLEAN, spatial_vars \in SUBSET VarNames :
         \E vars_selected \in DistinctSeqs(spatial_vars, 0) :
            LET file == uploaded_files[idx]
                o == OpenDataset(NETCDF4_AVAILABLE, primOK, secOK)
                h == Handle("select", file)
            IN  /\ lastOpen' = OpenRecord("select", file, primOK, o)
                /\ IF ~o.ok
                   THEN \* except Exception as e: st.error
                        /\ messages' = messages \cup {<<"could_not_read", file>>}
                        /\ openFailed' = openFailed \cup {<<"select", file>>}
                        /\ UNCHANGED <<handles, copernicus_selections>>
                   ELSE IF spatial_vars = {}
                   THEN \* st.error; continue
                        /\ messages' = messages \cup {<<"no_spatial", file>>}
                        /\ handles' = handles \cup {h}
                        /\ UNCHANGED <<openFailed, copernicus_selections>>
                   ELSE IF vars_selected = <<>>
                   THEN \* st.warning; continue
                        /\ messages' = messages \cup {<<"no_vars", file>>}
                        /\ handles' = handles \cup {h}
                        /\ UNCHANGED <<openFailed, copernicus_selections>>
                   ELSE \* the selection is stored, then ds.close()
                        /\ copernicus_selections' =
                              [f \in DOMAIN copernicus_selections \cup {file} |->
                                  IF f = file THEN [variables |-> vars_selected]
                                              ELSE copernicus_selections[f]]
                        /\ handles' = (handles \cup {h}) \ {h}
                        /\ UNCHANGED <<openFailed, messages>>
    /\ idx' = idx + 1
    /\ pc' = IF idx = Len(uploaded_files) THEN "button" ELSE "select"
    /\ UNCHANGED <<NETCDF4_AVAILABLE, final_excels, uploaded_files, badUnits,
                   hpc, vi, results, reported, scriptRuns, decoded, hadArtifacts, g, nm>>

\* the variant that keeps the earlier run's artifacts
BatchStartNoClear ==
    /\ pc = "button"
    /\ uploaded_files # <<>>
    /\ \E bad \in SUBSET SelectedUnits(copernicus_selections) : badUnits' = bad
    /\ pc' = "process"
    /\ idx' = 1
    /\ hpc' = "call"
    /\ hadArtifacts' = (final_excels # <<>>)
    /\ UNCHANGED <<NETCDF4_AVAILABLE, final_excels, uploaded_files,
                   copernicus_selections, vi, results, handles, messages, reported,
                   lastOpen, scriptRuns, decoded, openFailed, g, nm>>

\* lines 183-187: the button is pressed, the collection is cleared.  The data
\* of the files decide which selected units raise in the handler.
BatchStart ==
    /\ pc = "button"
    /\ uploaded_files # <<>>
    /\ \E bad \in SUBSET SelectedUnits(copernicus_selections) : badUnits' = bad
    /\ final_excels' = <<>>
    /\ pc' = "process"
    /\ idx' = 1
    /\ hpc' = "call"
    /\ hadArtifacts' = (final_excels # <<>>)
    /\ UNCHANGED <<NETCDF4_AVAILABLE, uploaded_files,
                   copernicus_selections, vi, results, handles, messages, reported,
                   lastOpen, scriptRuns, decoded, openFailed, g, nm>>

\* line 183 is false (no upload, or the button is not pressed): the script goes
\* on to the download section and ends
NoBatch ==
    /\ pc = "button"
    /\ pc' = "idle"
    /\ UNCHANGED <<NETCDF4_AVAILABLE, final_excels, uploaded_files, badUnits,
                   copernicus_selections, idx, hpc, vi, results, handles, messages,
                   reported, lastOpen, scriptRuns, decoded, openFailed, hadArtifacts, g, nm>>

\* lines 194-196: a file without a selection
SkipFile ==
    /\ pc = "process"
    /\ idx <= Len(uploaded_files)
    /\ uploaded_files[idx] \notin DOMAIN copernicus_selections
    /\ messages' = messages \cup {<<"skipped", uploaded_files[idx]>>}
    /\ idx' = idx + 1
    /\ UNCHANGED <<NETCDF4_AVAILABLE, final_excels, uploaded_files, badUnits,
                   copernicus_selections, pc, hpc, vi, results, handles, reported,
                   lastOpen, scriptRuns, decoded, openFailed, hadArtifacts, g, nm>>

\* lines 191, 115-127: the call, and the open inside the handler's try; when both
\* backends fail the except of line 176 reports, the handler returns None and
\* the loop goes on (lines 192, 196)
HandleOpen ==
    /\ pc = "process"
    /\ hpc = "call"
    /\ idx <= Len(uploaded_files)
    /\ uploaded_files[idx] \in DOMAIN copernicus_selections
    /\ \E primOK, secOK \in BOOLEAN :
         LET file == uploaded_files[idx]
             o == OpenDataset(NETCDF4_AVAILABLE, primOK, secOK)
         IN  /\ lastOpen' = OpenRecord("handle", file, primOK, o)
             /\ IF o.ok
                THEN /\ handles' = handles \cup {Handle("handle", file)}
                     /\ decoded' = decoded \cup {file}
                     /\ hpc' = "loop"
                     /\ UNCHANGED <<messages, openFailed, idx>>
                ELSE /\ messages' = messages \cup {<<"failed", file>>}
                     /\ openFailed' = openFailed \cup {<<"handle", file>>}
                     /\ idx' = idx + 1
                     /\ UNCHANGED <<handles, decoded, hpc>>
    /\ results' = <<>>
    /\ vi' = 1
    /\ UNCHANGED <<NETCDF4_AVAILABLE, final_excels, uploaded_files, badUnits,
                   copernicus_selections, pc, reported, scriptRuns, hadArtifacts, g, nm>>

\* lines 133-172: one variable of the selection.  A unit whose data raise
\* (empty subset, degenerate triangulation, ...) leaves the loop for the except
\* of line 176: st.error, return None, and the caller extends nothing.
HandleVar ==
    /\ pc = "process"
    /\ hpc = "loop"
    /\ vi <= Len(copernicus_selections[uploaded_files[idx]].variables)
    /\ LET file == uploaded_files[idx]
           var == copernicus_selections[file].variables[vi]
       IN  IF <<file, var>> \in badUnits
           THEN /\ messages' = messages \cup {<<"failed", file>>}
                /\ results' = <<>>
                /\ hpc' = "call"
                /\ idx' = idx + 1
                /\ vi' = 1
           ELSE /\ results' = Append(results, Artifact(file, var))
                /\ vi' = vi + 1
                /\ UNCHANGED <<messages, hpc, idx>>
    /\ UNCHANGED <<NETCDF4_AVAILABLE, final_excels, uploaded_files, badUnits,
                   copernicus_selections, pc, handles, reported, lastOpen, scriptRuns,
                   decoded, openFailed, hadArtifacts, g, nm>>

\* lines 174-175, 192-193, 196: the loop is over: ds.close(), return results,
\* and the caller extends the collection
HandleReturn ==
    /\ pc = "process"
    /\ hpc = "loop"
    /\ vi > Len(copernicus_selections[uploaded_files[idx]].variables)
    /\ handles' = handles \ {Handle("handle", uploaded_files[idx])}
    /\ final_excels' = IF results # <<>> THEN final_excels \o results ELSE final_excels
    /\ results' = <<>>
    /\ vi' = 1
    /\ hpc' = "call"
    /\ idx' = idx + 1
    /\ UNCHANGED <<NETCDF4_AVAILABLE, uploaded_files, badUnits,
                   copernicus_selections, pc, messages, reported, lastOpen, scriptRuns,
                   decoded, openFailed, hadArtifacts, g, nm>>

\* line 198: the count of the collection is shown
Report ==
    /\ pc = "process"
    /\ hpc = "call"
    /\ idx > Len(uploaded_files)
    /\ reported' = Len(final_excels)
    /\ pc' = "done"
    /\ UNCHANGED <<NETCDF4_AVAILABLE, final_excels, uploaded_files, badUnits,
                   copernicus_selections, idx, hpc, vi, results, handles, messages,
                   lastOpen, scriptRuns, decoded, openFailed, hadArtifacts, g, nm>>

Next ==
    \/ Rerun
    \/ SelectFile
    \/ BatchStart
    \/ NoBatch
    \/ SkipFile
    \/ HandleOpen
    \/ HandleVar
    \/ HandleReturn
    \/ Report

Spec == Init /\ [][Next]_vars

(***************************************************************************)
(* Properties of the script.                                               *)
(***************************************************************************)
HasArtifact(unit) == \E k \in 1..Len(final_excels) : final_excels[k].content = unit

\* what the handler hands back for the file at position i of the upload
Returned(i) ==
    LET f == uploaded_files[i]
    IN  IF /\ f \in DOMAIN copernicus_selections
           /\ f \in decoded
           /\ \A v \in Range(copernicus_selections[f].variables) : <<f, v>> \notin badUnits
        THEN [k \in 1..Len(copernicus_selections[f].variables) |->
                 Artifact(f, copernicus_selections[f].variables[k])]
        ELSE <<>>

\* C1: at the end of a batch every selected unit of a decoded file whose own
\* data do not raise has its artifact in the collection, whatever happened to
\* the other units.
C1_GoodUnitsContribute ==
    pc = "done" =>
        \A u \in SelectedUnits(copernicus_selections) :
            (u[1] \in decoded /\ u \notin badUnits) => HasArtifact(u)

\* C2: at the end of a batch no dataset handle opened by the script run is
\* still open.
C2_NoHandleLeftOpen == pc = "done" => handles = {}

\* C6: at the end of every batch run the collection is exactly what the
\* handler handed back in this run, file by file in upload order and variable
\* by variable in selection order, with nothing left of an earlier run, and
\* the count shown is its length.
C6_CollectionIsLatestRun ==
    pc = "done" =>
        /\ final_excels = Concat([i \in 1..Len(uploaded_files) |-> Returned(i)],
                                 Len(uploaded_files))
        /\ reported = Len(final_excels)

\* a second batch that produced artifacts, begun on a non-empty collection
C6_Witness ==
    /\ pc = "done"
    /\ hadArtifacts
    /\ scriptRuns >= 2
    /\ Len(final_excels) >= 2

\* C8: an open asks netcdf4 first when it is available, and asks h5netcdf
\* exactly when netcdf4 is unavailable or its attempt failed; and at the end of
\* a batch a file whose two backends both failed has an error message and no
\* artifact, while every uploaded file was still dealt with: skipped with a
\* warning, failed with an error, or decoded.
C8_FallbackAndIsolation ==
    /\ lastOpen.site # "none" =>
          /\ lastOpen.tried # <<>>
          /\ NETCDF4_AVAILABLE <=> lastOpen.tried[1] = "netcdf4"
          /\ (\E k \in 1..Len(lastOpen.tried) : lastOpen.tried[k] = "h5netcdf")
                <=> (~NETCDF4_AVAILABLE \/ ~lastOpen.primOK)
          /\ lastOpen.tried[Len(lastOpen.tried)] = "h5netcdf" \/ Len(lastOpen.tried) = 1
          /\ Len(lastOpen.tried) <= 2
          /\ ~lastOpen.ok => lastOpen.tried[Len(lastOpen.tried)] = "h5netcdf"
    /\ pc = "done" =>
          /\ \A sf \in openFailed :
                /\ \A k \in 1..Len(final_excels) : final_excels[k].content[1] # sf[2]
                /\ \/ <<"could_not_read", sf[2]>> \in messages
                   \/ <<"failed", sf[2]>> \in messages
          /\ \A i \in 1..Len(uploaded_files) :
                \/ <<"skipped", uploaded_files[i]>> \in messages
                \/ <<"failed", uploaded_files[i]>> \in messages
                \/ uploaded_files[i] \in decoded

\* a batch in which the handler's open of one file failed on both backends
\* after the primary attempt, and another file still gave artifacts
C8_Witness ==
    /\ pc = "done"
    /\ \E f \in FileNames : <<"handle", f>> \in openFailed
    /\ lastOpen.tried = <<"netcdf4", "h5netcdf">>
    /\ final_excels # <<>>

(***************************************************************************)
(* The data path of handle_copernicus_file (lines 126-175).                *)
(*                                                                         *)
(* g is the state of one call: the dataset (its two axes and, per          *)
(* variable, the cells whose value is missing), the selection, and the     *)
(* handler's locals.  A value is a token: <<"data", var, lat, lon>> for    *)
(* the sample of a cell, <<"linear", var, lat, lon>> for the value the     *)
(* piecewise-linear interpolant takes at a lattice point, NaN for none.    *)
(***************************************************************************)
grid_spacing == 1250        \* 0.125
Epsilon == 1                \* 0.0001
Deg180 == 1800000           \* 180
Deg360 == 3600000           \* 360
Milli == 10                 \* 0.001, round(3) and the inputs' step

AxisLen == 3
AxisStep == 2 * grid_spacing
LatOrigin == 5 * (grid_spacing \div 10)     \* 0.0625

NaN == <<"nan">>

Reverse(s) == [i \in 1..Len(s) |-> s[Len(s) + 1 - i]]

SeqMax(s) == CHOOSE x \in Range(s) : \A y \in Range(s) : y <= x

\* ---- xarray / pandas label slicing on a monotonic index (line 134) ----
IsAscending(axis) == \A i \in 1..(Len(axis) - 1) : axis[i] <= axis[i + 1]

\* numpy.searchsorted on an ascending array
SearchSorted(a, v, side) ==
    IF side = "left" THEN Cardinality({i \in 1..Len(a) : a[i] < v})
                     ELSE Cardinality({i \in 1..Len(a) : a[i] <= v})

\* Index.get_slice_bound: a descending index is searched reversed, with the
\* side and the result mirrored
SliceBound(axis, label, side) ==
    IF IsAscending(axis)
    THEN SearchSorted(axis, label, side)
    ELSE Len(axis) - SearchSorted(Reverse(axis), label,
                                  IF side = "left" THEN "right" ELSE "left")

\* .sel(dim=slice(start, stop)): the coordinate values kept, in axis order
SelSlice(axis, start, stop) ==
    LET lo == SliceBound(axis, start, "left")
        hi == SliceBound(axis, stop, "right")
    IN  IF hi <= lo THEN <<>> ELSE [i \in 1..(hi - lo) |-> axis[lo + i]]

\* ---- lines 129-131 ----
\* the variant that never swaps
NoSwap(lat_axis, lat_min, lat_max) == <<lat_min, lat_max>>

\* Swap lat if descending
SwapIfDescending(lat_axis, lat_min, lat_max) ==
    IF lat_axis[1] > lat_axis[Len(lat_axis)] THEN <<lat_max, lat_min>>
                                             ELSE <<lat_min, lat_max>>

\* ---- lines 135-136: to_dataframe().reset_index(), dropna ----
RECURSIVE FlattenRows(_, _, _, _, _)
FlattenRows(lats, lons, var, missing, k) ==
    IF k > Len(lats) * Len(lons) THEN <<>>
    ELSE LET lat == lats[((k - 1) \div Len(lons)) + 1]
             lon == lons[((k - 1) % Len(lons)) + 1]
             rest == FlattenRows(lats, lons, var, missing, k + 1)
         IN  IF <<lat, lon>> \in missing
             THEN rest
             ELSE <<[lat |-> lat, lon |-> lon, value |-> <<"data", var, lat, lon>>]>> \o rest

ToDataFrame(lats, lons, var, missing) == FlattenRows(lats, lons, var, missing, 1)

\* ---- lines 139-142 ----
Mod360(x) == x % Deg360

\* df['lon'].max() > 180 (the maximum of no rows is NaN, and NaN > 180 is False)
NeedsRewrap(df) == df # <<>> /\ SeqMax([i \in 1..Len(df) |-> df[i].lon]) > Deg180

\* ---- lines 145-149 ----
\* numpy.arange(start, stop, step), step > 0
Arange(start, stop, step) ==
    IF stop <= start THEN <<>>
    ELSE [i \in 1..(((stop - start - 1) \div step) + 1) |-> start + (i - 1) * step]

\* meshgrid(indexing='ij'), ravel, c_: latitude-major pairs
GridPoints(grid_lats, grid_lons) ==
    [k \in 1..(Len(grid_lats) * Len(grid_lons)) |->
        <<grid_lats[((k - 1) \div Len(grid_lons)) + 1],
          grid_lons[((k - 1) % Len(grid_lons)) + 1]>>]

\* ---- lines 152-159: scipy.interpolate.griddata ----
Abs(x) == IF x < 0 THEN -x ELSE x

Sign(x) == IF x < 0 THEN -1 ELSE IF x > 0 THEN 1 ELSE 0

\* the sign of n1/d1 - n2/d2 for positive denominators and non-negative
\* numerators, by Euclid's steps (no product is formed: a product of two
\* longitudes in these units exceeds TLC's 32-bit integers)
RECURSIVE CmpFrac(_, _, _, _)
CmpFrac(n1, d1, n2, d2) ==
    LET q1 == n1 \div d1
        q2 == n2 \div d2
        r1 == n1 % d1
        r2 == n2 % d2
    IN  IF q1 # q2 THEN Sign(q1 - q2)
        ELSE IF r1 = 0 /\ r2 = 0 THEN 0
        ELSE IF r1 = 0 THEN -1
        ELSE IF r2 = 0 THEN 1
        ELSE CmpFrac(d2, r2, d1, r1)

\* the sign of a*b - c*d
CmpProd(a, b, c, d) ==
    LET s1 == Sign(a) * Sign(b)
        s2 == Sign(c) * Sign(d)
    IN  IF s1 # s2 THEN Sign(s1 - s2)
        ELSE IF s1 = 0 THEN 0
        ELSE s1 * CmpFrac(Abs(a), Abs(d), Abs(c), Abs(b))

\* the orientation of the triangle o, a, b: the sign of its cross product
Cross(o, a, b) == CmpProd(a[1] - o[1], b[2] - o[2], a[2] - o[2], b[1] - o[1])

Points(df) == {<<df[i].lat, df[i].lon>> : i \in 1..Len(df)}

\* the triangulation needs three points that are not on one line
Degenerate(df) ==
    ~ \E a, b, c \in Points(df) : Cross(a, b, c) # 0

\* p is in the (closed) convex hull of the points: in a triangle of three of them
InHull(p, df) ==
    \E a, b, c \in Points(df) :
        /\ Cross(a, b, c) # 0
        /\ \/ (Cross(a, b, p) >= 0 /\ Cross(b, c, p) >= 0 /\ Cross(c, a, p) >= 0)
           \/ (Cross(a, b, p) <= 0 /\ Cross(b, c, p) <= 0 /\ Cross(c, a, p) <= 0)

\* method='linear' at one point: the sample itself on a source point, the
\* interpolant's value inside the hull, NaN outside
LinearAt(df, var, p) ==
    IF \E i \in 1..Len(df) : <<df[i].lat, df[i].lon>> = p
    THEN (df[CHOOSE i \in 1..Len(df) : <<df[i].lat, df[i].lon>> = p]).value
    ELSE IF InHull(p, df) THEN <<"linear", var, p[1], p[2]>>
    ELSE NaN

Dist2(p, q) == (p[1] - q[1]) * (p[1] - q[1]) + (p[2] - q[2]) * (p[2] - q[2])

\* method='nearest' at one point: the sample of a closest source point (which
\* one among equally close ones is the library's tie-break)
NearestAt(df, p) ==
    (df[CHOOSE i \in 1..Len(df) :
            \A j \in 1..Len(df) :
                Dist2(p, <<df[i].lat, df[i].lon>>) <= Dist2(p, <<df[j].lat, df[j].lon>>)]).value

\* the variant that overwrites every lattice point with the nearest sample
FillAll(df, grid_points, grid_values, nan_mask) ==
    [k \in 1..Len(grid_values) |-> NearestAt(df, grid_points[k])]

\* grid_values[nan_mask] = griddata(points, values, grid_points[nan_mask], 'nearest')
FillMasked(df, grid_points, grid_values, nan_mask) ==
    [k \in 1..Len(grid_values) |->
        IF nan_mask[k] THEN NearestAt(df, grid_points[k]) ELSE grid_values[k]]

\* ---- lines 162-167 ----
\* numpy round(3): to the nearest 0.001, halves to the even one
Round3(x) ==
    LET q == x \div Milli
        r == x % Milli
    IN  IF 2 * r < Milli THEN q * Milli
        ELSE IF 2 * r > Milli THEN (q + 1) * Milli
        ELSE IF q % 2 = 0 THEN q * Milli ELSE (q + 1) * Milli

\* the variant that sorts both columns ascending
RowBeforeAscending(a, b) == a.lat < b.lat \/ (a.lat = b.lat /\ a.lon < b.lon)

\* ascending=[False, True]: a comes strictly before b
RowBefore(a, b) == a.lat > b.lat \/ (a.lat = b.lat /\ a.lon < b.lon)

\* a stable sort: each row goes after the rows it does not come before
InsertRow(sorted, x) ==
    LET n == Cardinality({i \in 1..Len(sorted) : ~RowBefore(x, sorted[i])})
    IN  SubSeq(sorted, 1, n) \o <<x>> \o SubSeq(sorted, n + 1, Len(sorted))

RECURSIVE SortFrom(_, _, _)
SortFrom(rows, k, acc) ==
    IF k > Len(rows) THEN acc ELSE SortFrom(rows, k + 1, InsertRow(acc, rows[k]))

SortValues(rows) == SortFrom(rows, 1, <<>>)

GridFrame(grid_points, grid_values) ==
    [k \in 1..Len(grid_points) |->
        [lat |-> Round3(grid_points[k][1]), lon |-> Round3(grid_points[k][2]),
         value |-> grid_values[k]]]

(***************************************************************************)
(* The inputs of a call.                                                   *)
(***************************************************************************)
AxisFrom(origin) == [i \in 1..AxisLen |-> origin + (i - 1) * AxisStep]

LatAxes == {AxisFrom(LatOrigin), Reverse(AxisFrom(LatOrigin))}

\* longitudes around 0 (the +/-180 convention), across 180 and up to 360 (the
\* 0-360 convention)
LonAxes == {AxisFrom(-AxisStep), AxisFrom(Deg180 - AxisStep),
            AxisFrom(Deg360 - (AxisLen - 1) * AxisStep)}

\* the cells of a variable without a value
MissingPatterns(lat_axis, lon_axis) ==
    { {},
      {<<lat_axis[1], lon_axis[1]>>},
      Range(lat_axis) \X Range(lon_axis) }

\* what the number inputs of lines 94-98 can return: a value between the
\* axis's extremes
LatChoices(lat_axis) ==
    Range(lat_axis) \cup {LatOrigin + Milli}

LonChoices(lon_axis) == Range(lon_axis)

GridFileName == <<"a">> \o DotNc

GridInit ==
    /\ NETCDF4_AVAILABLE = TRUE
    /\ final_excels = <<>>
    /\ uploaded_files = <<GridFileName>>
    /\ badUnits = {}
    /\ copernicus_selections = NoSelections
    /\ pc = "process"
    /\ idx = 1
    /\ hpc = "loop"
    /\ vi = 1
    /\ results = <<>>
    /\ handles = {Handle("handle", GridFileName)}
    /\ messages = {}
    /\ reported = -1
    /\ lastOpen = NoOpen
    /\ scriptRuns = 1
    /\ decoded = {GridFileName}
    /\ openFailed = {}
    /\ hadArtifacts = FALSE
    /\ nm = <<>>
    /\ \E lat_axis \in LatAxes, lon_axis \in LonAxes, variables \in DistinctSeqs(VarNames, 1) :
         \E lat_min, lat_max \in LatChoices(lat_axis), lon_min, lon_max \in LonChoices(lon_axis),
            missing \in [VarNames -> MissingPatterns(lat_axis, lon_axis)] :
            /\ lat_min <= lat_max
            /\ lon_min <= lon_max
            /\ g = [pc |-> "start",
                    lat_axis |-> lat_axis, lon_axis |-> lon_axis, missing |-> missing,
                    selection |-> [variables |-> variables,
                                   lat_min |-> lat_min, lat_max |-> lat_max,
                                   lon_min |-> lon_min, lon_max |-> lon_max],
                    lat_min |-> 0, lat_max |-> 0, lon_min |-> 0, lon_max |-> 0,
                    vi |-> 1, var |-> <<>>,
                    subset |-> [lat |-> <<>>, lon |-> <<>>], df |-> <<>>,
                    grid_lats |-> <<>>, grid_lons |-> <<>>, grid_points |-> <<>>,
                    grid_values |-> <<>>, nan_mask |-> <<>>,
                    results |-> <<>>]

\* lines 126-131: the box of the selection, latitudes swapped on a descending axis
ReadSelection ==
    /\ g.pc = "start"
    /\ LET lats == SwapIfDescending(g.lat_axis, g.selection.lat_min, g.selection.lat_max)
       IN  g' = [g EXCEPT !.pc = "slice",
                          !.lat_min = lats[1], !.lat_max = lats[2],
                          !.lon_min = g.selection.lon_min, !.lon_max = g.selection.lon_max]
    /\ UNCHANGED <<scriptVars, nm>>

\* lines 133-136: the next variable is sliced to the box and its missing values dropped
SliceVariable ==
    /\ g.pc = "slice"
    /\ g.vi <= Len(g.selection.variables)
    /\ LET var == g.selection.variables[g.vi]
           lats == SelSlice(g.lat_axis, g.lat_min, g.lat_max)
           lons == SelSlice(g.lon_axis, g.lon_min, g.lon_max)
       IN  g' = [g EXCEPT !.pc = "rewrap", !.var = var,
                          !.subset = [lat |-> lats, lon |-> lons],
                          !.df = ToDataFrame(lats, lons, var, g.missing[var])]
    /\ UNCHANGED <<scriptVars, nm>>

\* lines 138-142: Convert longitudes >180 to 0-360
RewrapLongitudes ==
    /\ g.pc = "rewrap"
    /\ IF NeedsRewrap(g.df)
       THEN g' = [g EXCEPT !.pc = "grid",
                           !.df = [i \in 1..Len(g.df) |->
                                      [g.df[i] EXCEPT !.lon = Mod360(g.df[i].lon)]],
                           !.lon_min = Mod360(g.lon_min),
                           !.lon_max = Mod360(g.lon_max)]
       ELSE g' = [g EXCEPT !.pc = "grid"]
    /\ UNCHANGED <<scriptVars, nm>>

\* lines 144-149: Create QGIS-like grid
BuildGrid ==
    /\ g.pc = "grid"
    /\ LET grid_lons == Arange(g.lon_min, g.lon_max + Epsilon, grid_spacing)
           grid_lats == Arange(g.lat_min, g.lat_max + Epsilon, grid_spacing)
       IN  g' = [g EXCEPT !.pc = "linear",
                          !.grid_lons = grid_lons, !.grid_lats = grid_lats,
                          !.grid_points = GridPoints(grid_lats, grid_lons)]
    /\ UNCHANGED <<scriptVars, nm>>

\* lines 151-154: the linear pass; without a triangulation it raises, and the
\* except of line 176 returns None
InterpolateLinear ==
    /\ g.pc = "linear"
    /\ IF Degenerate(g.df)
       THEN g' = [g EXCEPT !.pc = "failed", !.results = <<>>]
       ELSE g' = [g EXCEPT !.pc = "fill",
                           !.grid_values = [k \in 1..Len(g.grid_points) |->
                                               LinearAt(g.df, g.var, g.grid_points[k])]]
    /\ UNCHANGED <<scriptVars, nm>>

\* lines 156-159: Fill remaining NaNs with nearest
FillNearest ==
    /\ g.pc = "fill"
    /\ LET nan_mask == [k \in 1..Len(g.grid_values) |-> g.grid_values[k] = NaN]
       IN  g' = [g EXCEPT !.pc = "table",
                          !.nan_mask = nan_mask,
                          !.grid_values =
                              IF \E k \in 1..Len(nan_mask) : nan_mask[k]
                              THEN FillMasked(g.df, g.grid_points, g.grid_values, nan_mask)
                              ELSE g.grid_values]
    /\ UNCHANGED <<scriptVars, nm>>

\* lines 161-172: the rounded, sorted table and its artifact
BuildTable ==
    /\ g.pc = "table"
    /\ g' = [g EXCEPT !.pc = "slice",
                      !.vi = g.vi + 1,
                      !.results = Append(g.results,
                          [name |-> OutName(GridFileName, g.var),
                           content |-> SortValues(GridFrame(g.grid_points, g.grid_values))])]
    /\ UNCHANGED <<scriptVars, nm>>

\* lines 174-175: ds.close(); return results
ReturnResults ==
    /\ g.pc = "slice"
    /\ g.vi > Len(g.selection.variables)
    /\ g' = [g EXCEPT !.pc = "returned"]
    /\ UNCHANGED <<scriptVars, nm>>

GridNext ==
    \/ ReadSelection
    \/ SliceVariable
    \/ RewrapLongitudes
    \/ BuildGrid
    \/ InterpolateLinear
    \/ FillNearest
    \/ BuildTable
    \/ ReturnResults

GridSpec == GridInit /\ [][GridNext]_vars

(***************************************************************************)
(* Properties of the data path.                                            *)
(***************************************************************************)
Last(s) == s[Len(s)]

\* a sequence starts at lo and ends within one step below hi (or the margin above)
Spans(seq, lo, hi) ==
    /\ seq # <<>>
    /\ seq[1] = lo
    /\ Last(seq) > hi - grid_spacing
    /\ Last(seq) <= hi + Epsilon

\* C3: for a selection with lat_min <= lat_max and lon_min <= lon_max, the
\* lattice just built is non-empty and each of its two sequences runs from the
\* minimum of the box, as the box stands when the lattice is built, to within
\* one step of its maximum.
C3_LatticeSpansBox ==
    (/\ g.pc = "linear"
     /\ g.selection.lat_min <= g.selection.lat_max
     /\ g.selection.lon_min <= g.selection.lon_max)
    => /\ g.grid_points # <<>>
       /\ Spans(g.grid_lats, g.lat_min, g.lat_max)
       /\ Spans(g.grid_lons, g.lon_min, g.lon_max)

\* C4: for a box with lat_min <= lat_max, the latitude rows a slice selects
\* are exactly the rows of the axis between lat_min and lat_max, each once,
\* whether the axis ascends or descends.
C4_SliceSelectsBoxRows ==
    (g.pc = "rewrap" /\ g.selection.lat_min <= g.selection.lat_max)
    => /\ Range(g.subset.lat) =
             {x \in Range(g.lat_axis) : g.selection.lat_min <= x /\ x <= g.selection.lat_max}
       /\ \A i, j \in 1..Len(g.subset.lat) : i # j => g.subset.lat[i] # g.subset.lat[j]

\* a descending axis sliced to a part of its rows
C4_Witness ==
    /\ g.pc = "rewrap"
    /\ g.lat_axis[1] > Last(g.lat_axis)
    /\ Len(g.subset.lat) >= 2
    /\ Len(g.subset.lat) < Len(g.lat_axis)

\* C5: the table of every artifact just built is ordered by latitude
\* non-increasing and, within one rounded latitude, by longitude
\* non-decreasing, and holds exactly one row for each lattice point.
C5_TableSorted ==
    (g.pc \in {"slice", "returned"} /\ g.results # <<>>)
    => LET t == Last(g.results).content
       IN  /\ \A i \in 1..(Len(t) - 1) :
                  /\ t[i].lat >= t[i + 1].lat
                  /\ t[i].lat = t[i + 1].lat => t[i].lon <= t[i + 1].lon
           /\ Len(t) = Len(g.grid_points)
           /\ \A k \in 1..Len(g.grid_points) :
                  Cardinality({i \in 1..Len(t) :
                                  /\ t[i].lat = Round3(g.grid_points[k][1])
                                  /\ t[i].lon = Round3(g.grid_points[k][2])}) = 1

\* a table of several latitudes and several longitudes
C5_Witness ==
    /\ g.pc = "slice"
    /\ g.results # <<>>
    /\ LET t == Last(g.results).content
       IN  /\ Len(t) >= 6
           /\ t[1].lat > Last(t).lat
           /\ t[1].lon < t[2].lon
           /\ t[1].lat # g.grid_points[1][1]

\* C9: after the two passes, when the linear pass has succeeded, no lattice
\* point is NaN; a point the linear pass defined has its linear value, and a
\* point it left NaN has the sample of a source point no farther than any other.
C9_NoLatticePointUndefined ==
    g.pc = "table"
    => /\ Len(g.grid_values) = Len(g.grid_points)
       /\ \A k \in 1..Len(g.grid_points) :
             LET p == g.grid_points[k]
                 lin == LinearAt(g.df, g.var, p)
             IN  /\ g.grid_values[k] # NaN
                 /\ lin # NaN => g.grid_values[k] = lin
                 /\ lin = NaN =>
                       \E i \in 1..Len(g.df) :
                           /\ g.grid_values[k] = g.df[i].value
                           /\ \A j \in 1..Len(g.df) :
                                 Dist2(p, <<g.df[i].lat, g.df[i].lon>>)
                                     <= Dist2(p, <<g.df[j].lat, g.df[j].lon>>)

\* a lattice with points outside the hull, filled, and points inside it, kept
C9_Witness ==
    /\ g.pc = "table"
    /\ \E k \in 1..Len(g.nan_mask) : g.nan_mask[k] /\ g.grid_values[k][1] = "data"
    /\ \E k \in 1..Len(g.nan_mask) : ~g.nan_mask[k] /\ g.grid_values[k][1] = "linear"

\* C10: the longitude bounds a variable has just been sliced with are the
\* selection's own, whichever variables came before it.
C10_SliceUsesSelectionLongitudes ==
    g.pc = "rewrap"
    => /\ g.lon_min = g.selection.lon_min
       /\ g.lon_max = g.selection.lon_max

(***************************************************************************)
(* The artifact names of one call (lines 46-50 and 169).                   *)
(***************************************************************************)
MaxStem == 3

StemChars == {"a", ".", "n", "c"}

Lower(ch) == IF ch = "N" THEN "n" ELSE IF ch = "C" THEN "c" ELSE ch

\* st.file_uploader(type=["nc"]): the name's extension, the text from its last
\* dot on, is compared in lower case with ".nc"; a name made of dots up to
\* there has no extension
Accepts(name) ==
    /\ Len(name) > Len(DotNc)
    /\ \A k \in 1..Len(DotNc) : Lower(name[Len(name) - Len(DotNc) + k]) = DotNc[k]
    /\ \E i \in 1..(Len(name) - Len(DotNc)) : name[i] # "."

UploadNames ==
    {n \in {stem \o ext : stem \in UNION {[1..k -> StemChars] : k \in 1..MaxStem},
                          ext \in {<<".", x, y>> : x \in {"n", "N"}, y \in {"c", "C"}}} :
        Accepts(n)}

NameInit ==
    /\ NETCDF4_AVAILABLE = TRUE
    /\ final_excels = <<>>
    /\ badUnits = {}
    /\ copernicus_selections = NoSelections
    /\ pc = "process"
    /\ idx = 1
    /\ hpc = "loop"
    /\ vi = 1
    /\ results = <<>>
    /\ messages = {}
    /\ reported = -1
    /\ lastOpen = NoOpen
    /\ scriptRuns = 1
    /\ openFailed = {}
    /\ hadArtifacts = FALSE
    /\ g = <<>>
    /\ \E name \in UploadNames, variables \in DistinctSeqs(VarNames, 1) :
          /\ uploaded_files = <<name>>
          /\ handles = {Handle("handle", name)}
          /\ decoded = {name}
          /\ nm = [pc |-> "start", name |-> name, variables |-> variables, out |-> <<>>]

\* line 169, once for each variable of the selection
ComputeNames ==
    /\ nm.pc = "start"
    /\ nm' = [nm EXCEPT !.pc = "named",
                        !.out = [k \in 1..Len(nm.variables) |->
                                    OutName(nm.name, nm.variables[k])]]
    /\ UNCHANGED <<scriptVars, g>>

NameNext == ComputeNames

NameSpec == NameInit /\ [][NameNext]_vars

\* C7: the names one call gives to two distinct variables of its selection
\* differ, for every file name the uploader accepts.
C7_NamesDistinct ==
    nm.pc = "named"
    => \A i, j \in 1..Len(nm.out) : i # j => nm.out[i] # nm.out[j]

====
